---- MODULE Spec2Model ----
(***************************************************************************)
(* s3n: a terminal navigator for an S3 bucket (bubbletea Model/Update).    *)
(* The model follows src/unnamed/part_001 (the controller with the View    *)
(* and Edit sessions); src/main.go holds the same navigation and listing   *)
(* code without the sessions.                                              *)
(*                                                                         *)
(* Strings are sequences of one-character strings, so that TrimPrefix,     *)
(* Split, Join and Contains are computed as the Go functions compute them. *)
(***************************************************************************)
EXTENDS Integers, Sequences, FiniteSets, Bags, TLC

VARIABLES
    currentPrefix,   \* Model.currentPrefix
    loading,         \* Model.loading
    nextPageToken,   \* Model.nextPageToken (NoToken models nil)
    hasMoreItems,    \* Model.hasMoreItems
    currentItems,    \* Model.currentItems, also the items of Model.list
    statusMsg,       \* Model.statusMsg
    showStatusMsg,   \* Model.showStatusMsg
    editFileStatus,  \* Model.editFileStatus
    inflight,        \* bag of commands issued and messages not yet delivered
    proc,            \* the external process that owns the terminal, or NoProc
    files,           \* the scratch files that exist, named by object key
    shown,           \* history: the fetch that produced currentItems
    startFrame,      \* history: the navigation state when the session in progress started
    projIn,          \* input of the projection run (SpecProj)
    projOut,         \* output of the projection run (SpecProj)
    body,            \* ViewModel.body, as runes (SpecView)
    filterInput,     \* ViewModel.filterInput.Value(), as runes
    filterEnabled,   \* ViewModel.filterEnabled
    viewport,        \* the content set on ViewModel.viewport: bytes, each plain or emphasized
    panicked,        \* the viewer died of a runtime panic
    object,          \* the body of the one object in the store (SpecEdit)
    tmpFile,         \* the scratch file of that object's key: whether it exists, its contents
    editStage,       \* how far the Edit session on the object is
    viewStage,       \* how far the View session on the object is
    downloaded,      \* history: the body the Edit session's GetObject returned
    saved            \* history: the editor has written the file

vars == <<currentPrefix, loading, nextPageToken, hasMoreItems, currentItems,
          statusMsg, showStatusMsg, editFileStatus, inflight, proc, files,
          shown, startFrame, projIn, projOut, body, filterInput, filterEnabled, viewport,
          panicked, object, tmpFile, editStage, viewStage, downloaded, saved>>

ctlVars == <<currentPrefix, loading, nextPageToken, hasMoreItems, currentItems,
             statusMsg, showStatusMsg, editFileStatus, inflight, proc, files,
             shown, startFrame>>

projVars == <<projIn, projOut>>

viewVars == <<body, filterInput, filterEnabled, viewport, panicked>>

editVars == <<object, tmpFile, editStage, viewStage, downloaded, saved>>

----------------------------------------------------------------------------
(* Bounds *)

\* the longest page the store answers with (S3 may return fewer keys than
\* MaxKeys and mark the listing truncated)
StorePageMax == 2

\* commands and messages in flight at once
MaxInflight == 2

\* length of the raw lists given to the projection in SpecProj
MaxRaw == 2

\* the longest body of the viewer, in runes
MaxText == 3

\* the longest filter string typed, in runes
MaxFilter == 2

\* the longest object body or scratch file, in blocks
MaxContent == 3

(* Program constants *)

PAGE_SIZE == 100

Delim == "/"

----------------------------------------------------------------------------
(* Go's strings package, on sequences of characters *)

Min(a, b) == IF a < b THEN a ELSE b

HasPrefix(s, p) ==
    /\ Len(p) <= Len(s)
    /\ SubSeq(s, 1, Len(p)) = p

HasSuffix(s, p) ==
    /\ Len(p) <= Len(s)
    /\ SubSeq(s, Len(s) - Len(p) + 1, Len(s)) = p

TrimPrefix(s, p) ==
    IF HasPrefix(s, p) THEN SubSeq(s, Len(p) + 1, Len(s)) ELSE s

TrimSuffix(s, p) ==
    IF HasSuffix(s, p) THEN SubSeq(s, 1, Len(s) - Len(p)) ELSE s

Contains(s, c) == \E i \in 1..Len(s) : s[i] = c

\* index of the first c in s, 0 when there is none
IndexOf(s, c) ==
    IF Contains(s, c)
    THEN CHOOSE i \in 1..Len(s) : s[i] = c /\ \A j \in 1..(i - 1) : s[j] # c
    ELSE 0

\* strings.Split(s, "/"): always at least one part; Split("", "/") = [""]
RECURSIVE Split(_, _)
Split(s, c) ==
    IF ~Contains(s, c)
    THEN <<s>>
    ELSE <<SubSeq(s, 1, IndexOf(s, c) - 1)>>
         \o Split(SubSeq(s, IndexOf(s, c) + 1, Len(s)), c)

\* strings.Join(parts, "/")
RECURSIVE Join(_, _)
Join(parts, c) ==
    IF Len(parts) = 0 THEN <<>>
    ELSE IF Len(parts) = 1 THEN parts[1]
    ELSE parts[1] \o <<c>> \o Join(Tail(parts), c)

----------------------------------------------------------------------------
(* The object store: a fixed bucket, its keys in the store's (bytewise)     *)
(* order: "//z", "a/b/y", "r"                                              *)

StoreKeys ==
    << <<"/", "/", "z">>,
       <<"a", "/", "b", "/", "y">>,
       <<"r">> >>

NoToken == 0

Tokens == 0..Len(StoreKeys)

\* the common prefix a key rolls up into under prefix P: P, the relative path
\* up to its first delimiter, and that delimiter
RollUp(k, P) ==
    P \o SubSeq(TrimPrefix(k, P), 1, IndexOf(TrimPrefix(k, P), Delim))

\* ListObjectsV2 with Delimiter "/": the keys after the token that start with
\* P, in order; a key whose relative path holds a delimiter counts once, as a
\* common prefix. The page ends at `limit` items; the next token names the
\* last key consumed.
RECURSIVE Scan(_, _, _, _, _)
Scan(P, i, limit, cps, contents) ==
    IF i > Len(StoreKeys)
    THEN [cps |-> cps, contents |-> contents, truncated |-> FALSE, next |-> NoToken]
    ELSE LET k == StoreKeys[i] IN
         IF ~HasPrefix(k, P)
         THEN Scan(P, i + 1, limit, cps, contents)
         ELSE IF Contains(TrimPrefix(k, P), Delim)
                 /\ Len(cps) > 0 /\ cps[Len(cps)] = RollUp(k, P)
         THEN Scan(P, i + 1, limit, cps, contents)
         ELSE IF Len(cps) + Len(contents) >= limit
         THEN [cps |-> cps, contents |-> contents, truncated |-> TRUE, next |-> i - 1]
         ELSE IF Contains(TrimPrefix(k, P), Delim)
         THEN Scan(P, i + 1, limit, Append(cps, RollUp(k, P)), contents)
         ELSE Scan(P, i + 1, limit, cps, Append(contents, k))

ListObjectsV2(P, token, maxKeys) ==
    Scan(P, token + 1, Min(maxKeys, StorePageMax), <<>>, <<>>)

----------------------------------------------------------------------------
(* loadItems: the projection of a raw listing onto one directory level *)

DirItem(p, P) ==
    [key |-> p, displayKey |-> TrimSuffix(TrimPrefix(p, P), <<Delim>>), isDir |-> TRUE]

FileItem(k, P) ==
    [key |-> k, displayKey |-> TrimPrefix(k, P), isDir |-> FALSE]

\* the loop over output.CommonPrefixes
RECURSIVE ProjectDirs(_, _)
ProjectDirs(P, cps) ==
    IF Len(cps) = 0 THEN <<>>
    ELSE IF Head(cps) # <<>> /\ Head(cps) # P
    THEN <<DirItem(Head(cps), P)>> \o ProjectDirs(P, Tail(cps))
    ELSE ProjectDirs(P, Tail(cps))

\* the loop over output.Contents
RECURSIVE ProjectFiles(_, _)
ProjectFiles(P, contents) ==
    IF Len(contents) = 0 THEN <<>>
    ELSE IF Head(contents) = <<>> \/ Head(contents) = P
    THEN ProjectFiles(P, Tail(contents))
    ELSE IF Contains(TrimPrefix(Head(contents), P), Delim)
    THEN ProjectFiles(P, Tail(contents))
    ELSE <<FileItem(Head(contents), P)>> \o ProjectFiles(P, Tail(contents))

\* a slip: the files put before the directories
ProjectFilesFirst(P, cps, contents) == ProjectFiles(P, contents) \o ProjectDirs(P, cps)

Project(P, cps, contents) == ProjectDirs(P, cps) \o ProjectFiles(P, contents)

\* what a successful loadItems returns for the prefix and token it was bound to
LoadItemsResult(P, token) ==
    LET out == ListObjectsV2(P, token, PAGE_SIZE) IN
    [items |-> Project(P, out.cps, out.contents),
     hasMore |-> out.truncated,
     nextToken |-> out.next]

----------------------------------------------------------------------------
(* Commands and messages in flight. A tea.Cmd runs on its own goroutine and *)
(* its result is delivered to Update later, in any order.                   *)

NoKey == <<>>

\* m.loadItems, bound to the copy of the Model it was taken from
LoadItemsCmd(P, token) == [type |-> "loadItems", key |-> P, tok |-> token, err |-> ""]

\* func() tea.Msg { return err }
ErrCmd(desc) == [type |-> "error", key |-> NoKey, tok |-> NoToken, err |-> desc]

\* tea.ExecProcess(exec.Command(...), callback)
ExecCmd(mode, k) == [type |-> "exec", key |-> k, tok |-> NoToken, err |-> mode]

ViewFinishedMsg(k, e) == [type |-> "ViewFinishedMsg", key |-> k, tok |-> NoToken, err |-> e]

EditFinishedMsg(k, e) == [type |-> "EditFinishedMsg", key |-> k, tok |-> NoToken, err |-> e]

\* tea.Tick(2 * time.Second, ...)
EditFileTickMsg == [type |-> "EditFileTickMsg", key |-> NoKey, tok |-> NoToken, err |-> ""]

Send(m) == inflight (+) SetToBag({m})

Take(m) == inflight (-) SetToBag({m})

Pending(t) == {m \in BagToSet(inflight) : m.type = t}

NoProc == [mode |-> "none", key |-> NoKey]

\* room for one more command: the bound on the model's in-flight work
Room == BagCardinality(inflight) + (IF proc = NoProc THEN 0 ELSE 1) < MaxInflight

\* the event loop hands messages to Update only while no process owns the
\* terminal (tea.ExecProcess blocks the loop until the process exits)
LoopRuns == proc = NoProc

\* a View or Edit session is under way: its process is to start, runs, or
\* has exited with its finished message not yet handled
SessionActive ==
    \/ proc # NoProc
    \/ Pending("exec") # {}
    \/ Pending("ViewFinishedMsg") # {}
    \/ Pending("EditFinishedMsg") # {}

----------------------------------------------------------------------------
(* Status messages *)

NoStatus == [kind |-> "", n |-> 0, text |-> ""]

\* fmt.Sprintf("Error: %v", msg)
ErrorStatus(desc) == [kind |-> "Error: ", n |-> 0, text |-> desc]

\* the status derived from a loaded page
LoadedStatus(items, hasMore) ==
    IF Len(items) = 0
    THEN [kind |-> "Directory is empty", n |-> 0, text |-> ""]
    ELSE IF hasMore
    THEN [kind |-> "Showing %d items (%s)", n |-> Len(items),
          text |-> "More available - press 'n' for next page"]
    ELSE [kind |-> "Showing %d items (%s)", n |-> Len(items),
          text |-> "End of list"]

NoEditStatus == [up |-> FALSE, key |-> NoKey]

\* fmt.Sprintf(" -> Uploaded %s to %s/%s!", msg.filename, m.bucketName, msg.key)
UploadedStatus(k) == [up |-> TRUE, key |-> k]

\* Model.View: what the renderer shows below the list
Rendered ==
    IF loading THEN [kind |-> "Loading...", n |-> 0, text |-> ""]
    ELSE IF ~showStatusMsg THEN NoStatus
    ELSE IF editFileStatus # NoEditStatus
    THEN [kind |-> "Uploaded", n |-> 0, text |-> ""]
    ELSE statusMsg

----------------------------------------------------------------------------
(* History kept for the reload claim *)

NothingShown == [set |-> FALSE, prefix |-> NoKey, token |-> NoToken]

----------------------------------------------------------------------------
(* History kept for the session frame claim *)

\* the navigation state: prefix, cursor, entries, loading
Frame == <<currentPrefix, hasMoreItems, nextPageToken, currentItems, loading>>

\* sessions are not followed (every specification but SpecSession)
NotFollowed == [kept |-> FALSE, known |-> FALSE, frame |-> <<>>]

\* sessions are followed, and no session's start is on record
NoFrame == [kept |-> TRUE, known |-> FALSE, frame |-> <<>>]

\* the record made when a session starts: the navigation state at that moment.
\* Sessions on one key cannot be told apart, so a session that starts while
\* another is under way is not put on record
FrameAtStart ==
    IF ~startFrame.kept THEN startFrame
    ELSE IF SessionActive THEN NoFrame
    ELSE [kept |-> TRUE, known |-> TRUE, frame |-> Frame]

\* the record once a session has ended
FrameAtEnd == IF startFrame.kept THEN NoFrame ELSE startFrame

----------------------------------------------------------------------------
(* The local scratch directory *)

\* os.Create("/tmp/{bucket}-{key}") needs the parent directory to exist; the
\* program creates no directory, so a key that holds a delimiter names a file
\* in a directory that is not there
CanCreate(k) == ~Contains(k, Delim)

\* GetObject answers for the keys of the bucket only
KeyExists(k) == \E i \in 1..Len(StoreKeys) : StoreKeys[i] = k

SessionOutcomes == {"getFail", "createFail", "copyFail", "ok"}

FinishOutcomes == {"openFail", "putFail", "removeFail", "ok"}

ExitErrors == {"", "exit status 1"}

----------------------------------------------------------------------------
(* Initial state: initialModel and Init *)

CtlInit ==
    /\ currentPrefix = <<>>
    /\ loading = TRUE
    /\ nextPageToken = NoToken
    /\ hasMoreItems = FALSE
    /\ currentItems = <<>>
    /\ statusMsg = NoStatus
    /\ showStatusMsg = FALSE
    /\ editFileStatus = NoEditStatus
    /\ inflight = SetToBag({LoadItemsCmd(<<>>, NoToken)})
    /\ proc = NoProc
    /\ files = {}
    /\ shown = NothingShown
    /\ startFrame = NotFollowed

ProjIdle ==
    /\ projIn = [P |-> <<>>, cps |-> <<>>, contents |-> <<>>]
    /\ projOut = [done |-> FALSE, items |-> <<>>]

\* no viewer is open
ViewIdle ==
    /\ body = <<>>
    /\ filterInput = <<>>
    /\ filterEnabled = FALSE
    /\ viewport = <<>>
    /\ panicked = FALSE

\* contents are sequences of blocks
NoFile == [exists |-> FALSE, content |-> <<>>]

\* no session's data is followed
EditIdle ==
    /\ object = <<>>
    /\ tmpFile = NoFile
    /\ editStage = "none"
    /\ viewStage = "none"
    /\ downloaded = <<>>
    /\ saved = FALSE

Init == CtlInit /\ ProjIdle /\ ViewIdle /\ EditIdle

----------------------------------------------------------------------------
(* Update: the handlers *)

\* a slip: the new page appended to the page on display
UpdateItemsLoadedMerge(msg) ==
    /\ currentItems' = currentItems \o msg.items
    /\ hasMoreItems' = msg.hasMore
    /\ nextPageToken' = msg.nextToken
    /\ loading' = FALSE
    /\ statusMsg' = LoadedStatus(msg.items, msg.hasMore)
    /\ showStatusMsg' = TRUE

\* case itemsLoadedMsg
UpdateItemsLoaded(msg) ==
    /\ currentItems' = msg.items
    /\ hasMoreItems' = msg.hasMore
    /\ nextPageToken' = msg.nextToken
    /\ loading' = FALSE
    /\ statusMsg' = LoadedStatus(msg.items, msg.hasMore)
    /\ showStatusMsg' = TRUE

\* case error
UpdateError(desc) ==
    /\ statusMsg' = ErrorStatus(desc)
    /\ showStatusMsg' = TRUE

\* the Back key's new prefix: drop the last part of the prefix
PopPrefix(P) ==
    LET parts == Split(TrimSuffix(P, <<Delim>>), Delim)
        joined == Join(SubSeq(parts, 1, Len(parts) - 1), Delim)
    IN  IF Len(parts) > 0
        THEN IF joined # <<>> THEN joined \o <<Delim>> ELSE joined
        ELSE <<>>

\* a loadItems command completes with a page
ItemsLoaded(f) ==
    /\ LoopRuns
    /\ f \in Pending("loadItems")
    /\ UpdateItemsLoaded(LoadItemsResult(f.key, f.tok))
    /\ inflight' = Take(f)
    /\ shown' = [set |-> TRUE, prefix |-> f.key, token |-> f.tok]
    /\ UNCHANGED <<currentPrefix, editFileStatus, proc, files, startFrame,
                   projVars, viewVars, editVars>>

\* a loadItems command completes with the store's error
FetchError(f) ==
    /\ LoopRuns
    /\ f \in Pending("loadItems")
    /\ UpdateError("ListObjectsV2 failed")
    /\ inflight' = Take(f)
    /\ UNCHANGED <<currentPrefix, loading, nextPageToken, hasMoreItems, currentItems,
                   editFileStatus, proc, files, shown, startFrame,
                   projVars, viewVars, editVars>>

\* an error returned by a handler's command is delivered
ErrorMsg(m) ==
    /\ LoopRuns
    /\ m \in Pending("error")
    /\ UpdateError(m.err)
    /\ inflight' = Take(m)
    /\ UNCHANGED <<currentPrefix, loading, nextPageToken, hasMoreItems, currentItems,
                   editFileStatus, proc, files, shown, startFrame,
                   projVars, viewVars, editVars>>

\* a slip: the fetch bound to the Model before the prefix is assigned
EnterDirOldPrefix(i) ==
    /\ LoopRuns /\ Room
    /\ i \in 1..Len(currentItems)
    /\ currentItems[i].isDir
    /\ loading' = TRUE
    /\ currentPrefix' = currentItems[i].key
    /\ inflight' = Send(LoadItemsCmd(currentPrefix, nextPageToken))
    /\ UNCHANGED <<nextPageToken, hasMoreItems, currentItems, statusMsg, showStatusMsg,
                   editFileStatus, proc, files, shown, startFrame,
                   projVars, viewVars, editVars>>

\* Enter on a directory
EnterDir(i) ==
    /\ LoopRuns /\ Room
    /\ i \in 1..Len(currentItems)
    /\ currentItems[i].isDir
    /\ loading' = TRUE
    /\ currentPrefix' = currentItems[i].key
    /\ inflight' = Send(LoadItemsCmd(currentItems[i].key, nextPageToken))
    /\ UNCHANGED <<nextPageToken, hasMoreItems, currentItems, statusMsg, showStatusMsg,
                   editFileStatus, proc, files, shown, startFrame,
                   projVars, viewVars, editVars>>

\* GetObject, then writeToTmpFile, then tea.ExecProcess: the part View and Edit share
StartSession(mode, k, o) ==
    /\ o \in SessionOutcomes
    /\ o # "getFail" => KeyExists(k)
    /\ o \in {"copyFail", "ok"} => CanCreate(k)
    /\ files' = IF o \in {"copyFail", "ok"} THEN files \cup {k} ELSE files
    /\ inflight' =
         CASE o = "getFail" -> Send(ErrCmd("GetObject failed"))
           [] o = "createFail" -> Send(ErrCmd("failed to create temp file"))
           [] o = "copyFail" -> Send(ErrCmd("failed to write to temp file"))
           [] o = "ok" -> Send(ExecCmd(mode, k))
    /\ startFrame' = IF o = "ok" THEN FrameAtStart ELSE startFrame

\* Enter on a file, or with nothing selected (the zero item is not a directory)
View(i, o) ==
    /\ LoopRuns /\ Room
    /\ \/ i \in 1..Len(currentItems) /\ ~currentItems[i].isDir
       \/ i = 0 /\ Len(currentItems) = 0
    /\ StartSession("view", IF i = 0 THEN NoKey ELSE currentItems[i].key, o)
    /\ UNCHANGED <<currentPrefix, loading, nextPageToken, hasMoreItems, currentItems,
                   statusMsg, showStatusMsg, editFileStatus, proc, shown,
                   projVars, viewVars, editVars>>

\* a slip: the delimiter not appended again after the join
BackNoDelimiter ==
    /\ LoopRuns /\ Room
    /\ currentPrefix # <<>>
    /\ loading' = TRUE
    /\ currentPrefix' = TrimSuffix(PopPrefix(currentPrefix), <<Delim>>)
    /\ inflight' = Send(LoadItemsCmd(TrimSuffix(PopPrefix(currentPrefix), <<Delim>>),
                                     nextPageToken))
    /\ UNCHANGED <<nextPageToken, hasMoreItems, currentItems, statusMsg, showStatusMsg,
                   editFileStatus, proc, files, shown, startFrame,
                   projVars, viewVars, editVars>>

\* Back below the root
Back ==
    /\ LoopRuns /\ Room
    /\ currentPrefix # <<>>
    /\ loading' = TRUE
    /\ currentPrefix' = PopPrefix(currentPrefix)
    /\ inflight' = Send(LoadItemsCmd(PopPrefix(currentPrefix), nextPageToken))
    /\ UNCHANGED <<nextPageToken, hasMoreItems, currentItems, statusMsg, showStatusMsg,
                   editFileStatus, proc, files, shown, startFrame,
                   projVars, viewVars, editVars>>

\* a slip: Back at the root reloads the root
BackAtRootReloads ==
    /\ LoopRuns /\ Room
    /\ currentPrefix = <<>>
    /\ loading' = TRUE
    /\ inflight' = Send(LoadItemsCmd(currentPrefix, nextPageToken))
    /\ UNCHANGED <<currentPrefix, nextPageToken, hasMoreItems, currentItems, statusMsg,
                   showStatusMsg, editFileStatus, proc, files, shown, startFrame,
                   projVars, viewVars, editVars>>

\* Back at the root: no case matches, the key goes to the list
BackAtRoot ==
    /\ LoopRuns
    /\ currentPrefix = <<>>
    /\ UNCHANGED vars

\* Reload
Reload ==
    /\ LoopRuns /\ Room
    /\ loading' = TRUE
    /\ inflight' = Send(LoadItemsCmd(currentPrefix, nextPageToken))
    /\ UNCHANGED <<currentPrefix, nextPageToken, hasMoreItems, currentItems, statusMsg,
                   showStatusMsg, editFileStatus, proc, files, shown, startFrame,
                   projVars, viewVars, editVars>>

\* Edit on a file
Edit(i, o) ==
    /\ LoopRuns /\ Room
    /\ i \in 1..Len(currentItems)
    /\ ~currentItems[i].isDir
    /\ StartSession("edit", currentItems[i].key, o)
    /\ UNCHANGED <<currentPrefix, loading, nextPageToken, hasMoreItems, currentItems,
                   statusMsg, showStatusMsg, editFileStatus, proc, shown,
                   projVars, viewVars, editVars>>

\* a slip: Edit on a directory treated as Edit on a file
EditDirStartsSession(i) ==
    /\ LoopRuns /\ Room
    /\ i \in 1..Len(currentItems)
    /\ currentItems[i].isDir
    /\ inflight' = Send(ErrCmd("GetObject failed"))
    /\ UNCHANGED <<currentPrefix, loading, nextPageToken, hasMoreItems, currentItems,
                   statusMsg, showStatusMsg, editFileStatus, proc, files, shown, startFrame,
                   projVars, viewVars, editVars>>

\* Edit on a directory (return m, nil), or with nothing selected
EditNothing(i) ==
    /\ LoopRuns
    /\ \/ i \in 1..Len(currentItems) /\ currentItems[i].isDir
       \/ i = 0 /\ Len(currentItems) = 0
    /\ UNCHANGED vars

\* the runtime starts the external process: it owns the terminal until it exits
ExecStart(e) ==
    /\ LoopRuns
    /\ e \in Pending("exec")
    /\ proc' = [mode |-> e.err, key |-> e.key]
    /\ inflight' = Take(e)
    /\ UNCHANGED <<currentPrefix, loading, nextPageToken, hasMoreItems, currentItems,
                   statusMsg, showStatusMsg, editFileStatus, files, shown, startFrame,
                   projVars, viewVars, editVars>>

\* the process exits; the ExecProcess callback builds the finished message
ProcExit(e) ==
    /\ proc # NoProc
    /\ e \in ExitErrors
    /\ proc' = NoProc
    /\ inflight' = Send(IF proc.mode = "view"
                        THEN ViewFinishedMsg(proc.key, e)
                        ELSE EditFinishedMsg(proc.key, e))
    /\ UNCHANGED <<currentPrefix, loading, nextPageToken, hasMoreItems, currentItems,
                   statusMsg, showStatusMsg, editFileStatus, files, shown, startFrame,
                   projVars, viewVars, editVars>>

\* case ViewFinishedMsg: os.Remove, its error dropped
ViewFinished(m, removed) ==
    /\ LoopRuns
    /\ m \in Pending("ViewFinishedMsg")
    /\ removed \in BOOLEAN
    /\ files' = IF removed THEN files \ {m.key} ELSE files
    /\ startFrame' = FrameAtEnd
    /\ inflight' = Take(m)
    /\ UNCHANGED <<currentPrefix, loading, nextPageToken, hasMoreItems, currentItems,
                   statusMsg, showStatusMsg, editFileStatus, proc, shown,
                   projVars, viewVars, editVars>>

\* a slip: the confirmation set only once the scratch file is removed
EditFinishedConfirmLast(m, o) ==
    /\ LoopRuns
    /\ m \in Pending("EditFinishedMsg")
    /\ o \in FinishOutcomes
    /\ o # "openFail" => m.key \in files
    /\ editFileStatus' = IF o = "ok" THEN UploadedStatus(m.key) ELSE editFileStatus
    /\ files' = IF o = "ok" THEN files \ {m.key} ELSE files
    /\ startFrame' = FrameAtEnd
    /\ inflight' =
         CASE o = "openFail" -> Take(m) (+) SetToBag({ErrCmd("open failed")})
           [] o = "putFail" -> Take(m) (+) SetToBag({ErrCmd("PutObject failed")})
           [] o = "removeFail" -> Take(m) (+) SetToBag({ErrCmd("remove failed")})
           [] o = "ok" -> Take(m) (+) SetToBag({EditFileTickMsg})
    /\ UNCHANGED <<currentPrefix, loading, nextPageToken, hasMoreItems, currentItems,
                   statusMsg, showStatusMsg, proc, shown, projVars, viewVars, editVars>>

\* case EditFinishedMsg: os.Open, PutObject, editFileStatus, os.Remove, tea.Tick
EditFinished(m, o) ==
    /\ LoopRuns
    /\ m \in Pending("EditFinishedMsg")
    /\ o \in FinishOutcomes
    /\ o # "openFail" => m.key \in files
    /\ editFileStatus' = IF o \in {"removeFail", "ok"}
                         THEN UploadedStatus(m.key)
                         ELSE editFileStatus
    /\ files' = IF o = "ok" THEN files \ {m.key} ELSE files
    /\ startFrame' = FrameAtEnd
    /\ inflight' =
         CASE o = "openFail" -> Take(m) (+) SetToBag({ErrCmd("open failed")})
           [] o = "putFail" -> Take(m) (+) SetToBag({ErrCmd("PutObject failed")})
           [] o = "removeFail" -> Take(m) (+) SetToBag({ErrCmd("remove failed")})
           [] o = "ok" -> Take(m) (+) SetToBag({EditFileTickMsg})
    /\ UNCHANGED <<currentPrefix, loading, nextPageToken, hasMoreItems, currentItems,
                   statusMsg, showStatusMsg, proc, shown, projVars, viewVars, editVars>>

\* case EditFileTickMsg
EditFileTick(m) ==
    /\ LoopRuns
    /\ m \in Pending("EditFileTickMsg")
    /\ editFileStatus' = NoEditStatus
    /\ inflight' = Take(m)
    /\ UNCHANGED <<currentPrefix, loading, nextPageToken, hasMoreItems, currentItems,
                   statusMsg, showStatusMsg, proc, files, shown, startFrame,
                   projVars, viewVars, editVars>>

Selections == 0..Len(currentItems)

Next ==
    \/ \E f \in BagToSet(inflight) : ItemsLoaded(f)
    \/ \E f \in BagToSet(inflight) : FetchError(f)
    \/ \E m \in BagToSet(inflight) : ErrorMsg(m)
    \/ \E i \in Selections : EnterDir(i)
    \/ \E i \in Selections, o \in SessionOutcomes : View(i, o)
    \/ Back
    \/ BackAtRoot
    \/ Reload
    \/ \E i \in Selections, o \in SessionOutcomes : Edit(i, o)
    \/ \E i \in Selections : EditNothing(i)
    \/ \E e \in BagToSet(inflight) : ExecStart(e)
    \/ \E e \in ExitErrors : ProcExit(e)
    \/ \E m \in BagToSet(inflight), removed \in BOOLEAN : ViewFinished(m, removed)
    \/ \E m \in BagToSet(inflight), o \in FinishOutcomes : EditFinished(m, o)
    \/ \E m \in BagToSet(inflight) : EditFileTick(m)

Spec == Init /\ [][Next]_vars

----------------------------------------------------------------------------
(* The projection alone, on raw listings the store need not be able to      *)
(* produce: empty names, the prefix itself, names of deeper levels          *)

RawStrings ==
    { <<>>,
      <<"a", "/">>,
      <<"a", "/", "b", "/">>,
      <<"a", "/", "b", "/", "y">>,
      <<"a", "/", "x">>,
      <<"r">> }

ProjPrefixes == { <<>>, <<"a", "/">> }

BoundedSeq(S, n) == UNION {[1..k -> S] : k \in 0..n}

InitProj ==
    /\ CtlInit
    /\ projIn \in [P : ProjPrefixes,
                   cps : BoundedSeq(RawStrings, MaxRaw),
                   contents : BoundedSeq(RawStrings, MaxRaw)]
    /\ projOut = [done |-> FALSE, items |-> <<>>]
    /\ ViewIdle
    /\ EditIdle

RunProject ==
    /\ ~projOut.done
    /\ projOut' = [done |-> TRUE,
                   items |-> Project(projIn.P, projIn.cps, projIn.contents)]
    /\ UNCHANGED <<projIn, ctlVars, viewVars, editVars>>

SpecProj == InitProj /\ [][RunProject]_vars

----------------------------------------------------------------------------
(* The viewer's content filter (view.go). A Go string is a sequence of      *)
(* bytes; the viewer's strings are kept as runes and encoded where the code *)
(* indexes them.                                                            *)

\* the runes bodies and filter strings are drawn from: ASCII letters, the
\* Kelvin sign U+212A (3 bytes, lower case k, 1 byte) and A with stroke
\* U+023A (2 bytes, lower case U+2C65, 3 bytes)
Runes == {"b", "B", "k", "KELVIN", "A_STROKE"}

\* unicode.ToLower
ToLowerRune(r) ==
    CASE r = "B" -> "b"
      [] r = "KELVIN" -> "k"
      [] r = "A_STROKE" -> "a_stroke"
      [] OTHER -> r

\* the UTF-8 encoding of a rune
Utf8Rune(r) ==
    CASE r = "KELVIN" -> <<"E2", "84", "AA">>
      [] r = "A_STROKE" -> <<"C8", "BA">>
      [] r = "a_stroke" -> <<"E2", "B1", "A5">>
      [] OTHER -> <<r>>

\* the bytes of a string
RECURSIVE Utf8(_)
Utf8(s) == IF Len(s) = 0 THEN <<>> ELSE Utf8Rune(Head(s)) \o Utf8(Tail(s))

\* strings.ToLower
ToLower(s) == [i \in 1..Len(s) |-> ToLowerRune(s[i])]

\* strings.Index on bytes: the offset of the first occurrence, or -1
Index(s, sub) ==
    LET At(i) == SubSeq(s, i + 1, i + Len(sub)) = sub
        hits == {i \in 0..(Len(s) - Len(sub)) : At(i)}
    IN  IF hits = {} THEN -1 ELSE CHOOSE i \in hits : \A j \in hits : i <= j

\* bytes written to the result as they are
Plain(bytes) == [i \in 1..Len(bytes) |-> [b |-> bytes[i], hl |-> FALSE]]

\* lipgloss.NewStyle().Foreground(...).Render(bytes)
Render(bytes) == [i \in 1..Len(bytes) |-> [b |-> bytes[i], hl |-> TRUE]]

\* a slice expression out of range
Panics == [panic |-> TRUE, text |-> <<>>]

\* the for loop of highlightOccurencesCaseInsensitive: a and lowerA are the
\* bytes of the text and of its lower case, lenB is len(b)
RECURSIVE HighlightLoop(_, _, _, _, _, _)
HighlightLoop(a, lowerA, lenB, lowerB, lastIndex, result) ==
    IF lastIndex > Len(lowerA)
    THEN Panics
    ELSE LET index == Index(SubSeq(lowerA, lastIndex + 1, Len(lowerA)), lowerB) IN
         IF index = -1
         THEN IF lastIndex > Len(a)
              THEN Panics
              ELSE [panic |-> FALSE,
                    text |-> result \o Plain(SubSeq(a, lastIndex + 1, Len(a)))]
         ELSE IF lastIndex + index + lenB > Len(a)
         THEN Panics
         ELSE HighlightLoop(a, lowerA, lenB, lowerB, lastIndex + index + lenB,
                            result
                              \o Plain(SubSeq(a, lastIndex + 1, lastIndex + index))
                              \o Render(SubSeq(a, lastIndex + index + 1,
                                               lastIndex + index + lenB)))

highlightOccurencesCaseInsensitive(a, b) ==
    IF Len(b) = 0
    THEN [panic |-> FALSE, text |-> Plain(Utf8(a))]
    ELSE HighlightLoop(Utf8(a), Utf8(ToLower(a)), Len(Utf8(b)), Utf8(ToLower(b)),
                       0, <<>>)

\* ViewModel.updateContent: what it sets on the viewport
updateContent(text, enabled, filter) ==
    IF enabled
    THEN highlightOccurencesCaseInsensitive(text, filter)
    ELSE [panic |-> FALSE, text |-> Plain(Utf8(text))]

\* the viewport after updateContent, or the panic
SetContent(c) ==
    /\ panicked' = c.panic
    /\ viewport' = IF c.panic THEN viewport ELSE c.text

\* a slip: the filter string cleared and the viewport left as it is
clearFilterStale ==
    /\ filterInput' = <<>>
    /\ UNCHANGED <<viewport, panicked>>

\* ViewModel.clearFilter
clearFilter ==
    /\ filterInput' = <<>>
    /\ SetContent(updateContent(body, filterEnabled', <<>>))

\* NewView
InitView ==
    /\ CtlInit
    /\ ProjIdle
    /\ body \in BoundedSeq(Runes, MaxText)
    /\ filterInput = <<>>
    /\ filterEnabled = FALSE
    /\ viewport = Plain(Utf8(body))
    /\ panicked = FALSE
    /\ EditIdle

\* ViewModel.Update, key "/"
KeySlash ==
    /\ ~panicked
    /\ ~filterEnabled
    /\ filterEnabled' = TRUE
    /\ UNCHANGED <<body, filterInput, viewport, panicked, ctlVars, projVars, editVars>>

\* ViewModel.Update, key "esc"
KeyEsc ==
    /\ ~panicked
    /\ IF filterEnabled
       THEN /\ filterEnabled' = FALSE
            /\ clearFilter
       ELSE UNCHANGED <<filterEnabled, filterInput, viewport, panicked>>
    /\ UNCHANGED <<body, ctlVars, projVars, editVars>>

\* ViewModel.Update, a character key: typed into the filter input when the
\* filter is enabled, else handed to the viewport
KeyRune(r) ==
    /\ ~panicked
    /\ r \in Runes
    /\ IF filterEnabled
       THEN /\ Len(filterInput) < MaxFilter
            /\ filterInput' = Append(filterInput, r)
            /\ SetContent(updateContent(body, filterEnabled, filterInput'))
       ELSE UNCHANGED <<filterInput, viewport, panicked>>
    /\ UNCHANGED <<body, filterEnabled, ctlVars, projVars, editVars>>

\* ViewModel.Update, key "backspace"
KeyBackspace ==
    /\ ~panicked
    /\ IF filterEnabled
       THEN /\ filterInput' = SubSeq(filterInput, 1, Len(filterInput) - 1)
            /\ SetContent(updateContent(body, filterEnabled, filterInput'))
       ELSE UNCHANGED <<filterInput, viewport, panicked>>
    /\ UNCHANGED <<body, filterEnabled, ctlVars, projVars, editVars>>

\* ViewModel.Update, tea.WindowSizeMsg
WindowSize ==
    /\ ~panicked
    /\ SetContent(updateContent(body, filterEnabled, filterInput))
    /\ UNCHANGED <<body, filterInput, filterEnabled, ctlVars, projVars, editVars>>

NextView ==
    \/ KeySlash
    \/ KeyEsc
    \/ \E r \in Runes : KeyRune(r)
    \/ KeyBackspace
    \/ WindowSize

SpecView == InitView /\ [][NextView]_vars

----------------------------------------------------------------------------
(* The bytes of a View and an Edit session on one object: what is written   *)
(* to the scratch file /tmp/{bucket}-{key} and what is uploaded. Update     *)
(* takes key events while a session's command or finished message is in     *)
(* flight, so the two sessions can overlap; one process runs at a time and  *)
(* no handler runs while it does.                                           *)

Blocks == {"text", "more", "header"}

\* the metadata block View composes: never empty
Header == <<"header">>

\* what the editor writes when it saves
Edited == <<"text", "more">>

\* writeToTmpFile(metadata, reader, fileName): the file it leaves when
\* os.Create, io.WriteString and io.Copy succeed
writeToTmpFile(metadata, reader) == [exists |-> TRUE, content |-> metadata \o reader]

ProcRuns == editStage = "editing" \/ viewStage = "viewing"

InitEdit ==
    /\ CtlInit
    /\ ProjIdle
    /\ ViewIdle
    /\ object \in BoundedSeq(Blocks, MaxContent - 1)
    /\ tmpFile = NoFile
    /\ editStage = "none"
    /\ viewStage = "none"
    /\ downloaded = <<>>
    /\ saved = FALSE

\* Edit on the file: GetObject, writeToTmpFile("", obj.Body, ...), tea.ExecProcess
EditDownload ==
    /\ ~ProcRuns
    /\ editStage = "none"
    /\ tmpFile' = writeToTmpFile(<<>>, object)
    /\ downloaded' = object
    /\ saved' = FALSE
    /\ editStage' = "launch"
    /\ UNCHANGED <<object, viewStage, ctlVars, projVars, viewVars>>

\* the runtime starts $EDITOR on the file
EditorStart ==
    /\ ~ProcRuns
    /\ editStage = "launch"
    /\ editStage' = "editing"
    /\ UNCHANGED <<object, tmpFile, viewStage, downloaded, saved, ctlVars, projVars,
                   viewVars>>

\* the editor saves (creating the file if it is gone)
EditorSave ==
    /\ editStage = "editing"
    /\ tmpFile' = [exists |-> TRUE, content |-> Edited]
    /\ saved' = TRUE
    /\ UNCHANGED <<object, editStage, viewStage, downloaded, ctlVars, projVars,
                   viewVars>>

\* the editor exits: EditFinishedMsg is built
EditorExit ==
    /\ editStage = "editing"
    /\ editStage' = "finished"
    /\ UNCHANGED <<object, tmpFile, viewStage, downloaded, saved, ctlVars, projVars,
                   viewVars>>

\* case EditFinishedMsg: os.Open, PutObject with the file as Body, os.Remove
EditUpload ==
    /\ ~ProcRuns
    /\ editStage = "finished"
    /\ editStage' = "none"
    /\ object' = IF tmpFile.exists THEN tmpFile.content ELSE object
    /\ tmpFile' = NoFile
    /\ UNCHANGED <<viewStage, downloaded, saved, ctlVars, projVars, viewVars>>

\* Enter on the file: GetObject, writeToTmpFile(metadata, obj.Body, ...), tea.ExecProcess
ViewDownload ==
    /\ ~ProcRuns
    /\ viewStage = "none"
    /\ Len(Header \o object) <= MaxContent
    /\ tmpFile' = writeToTmpFile(Header, object)
    /\ viewStage' = "launch"
    /\ UNCHANGED <<object, editStage, downloaded, saved, ctlVars, projVars, viewVars>>

\* the runtime starts less on the file
PagerStart ==
    /\ ~ProcRuns
    /\ viewStage = "launch"
    /\ viewStage' = "viewing"
    /\ UNCHANGED <<object, tmpFile, editStage, downloaded, saved, ctlVars, projVars,
                   viewVars>>

\* less exits: ViewFinishedMsg is built
PagerExit ==
    /\ viewStage = "viewing"
    /\ viewStage' = "finished"
    /\ UNCHANGED <<object, tmpFile, editStage, downloaded, saved, ctlVars, projVars,
                   viewVars>>

\* case ViewFinishedMsg: os.Remove
ViewCleanup ==
    /\ ~ProcRuns
    /\ viewStage = "finished"
    /\ viewStage' = "none"
    /\ tmpFile' = NoFile
    /\ UNCHANGED <<object, editStage, downloaded, saved, ctlVars, projVars, viewVars>>

NextEdit ==
    \/ EditDownload
    \/ EditorStart
    \/ EditorSave
    \/ EditorExit
    \/ EditUpload
    \/ ViewDownload
    \/ PagerStart
    \/ PagerExit
    \/ ViewCleanup

SpecEdit == InitEdit /\ [][NextEdit]_vars

----------------------------------------------------------------------------
(* Properties *)

\* a key event handled by Update: Enter, Back, Reload or Edit
KeyStep ==
    \/ \E i \in Selections : EnterDir(i)
    \/ \E i \in Selections, o \in SessionOutcomes : View(i, o)
    \/ Back
    \/ BackAtRoot
    \/ Reload
    \/ \E i \in Selections, o \in SessionOutcomes : Edit(i, o)
    \/ \E i \in Selections : EditNothing(i)

\* the loadItems commands issued by the step
NewFetches ==
    {f \in BagToSet(inflight') :
        f.type = "loadItems" /\ CopiesIn(f, inflight') > CopiesIn(f, inflight)}

\* the step ends a session on the scratch file of key k, on one of the paths:
\* the write of the body fails, the pager or editor has exited (with or
\* without error) and the finished message is handled, the re-open fails,
\* the upload fails
SessionEnds(k) ==
    \/ \E i \in Selections : i > 0 /\ currentItems[i].key = k /\ View(i, "copyFail")
    \/ \E i \in Selections : i > 0 /\ currentItems[i].key = k /\ Edit(i, "copyFail")
    \/ \E m \in Pending("ViewFinishedMsg") : m.key = k /\ ViewFinished(m, TRUE)
    \/ \E m \in Pending("EditFinishedMsg") :
          m.key = k /\ \E o \in {"openFail", "putFail", "ok"} : EditFinished(m, o)

\* C1: resource safety. When a View or Edit session that created its scratch
\* file ends, on any of its paths, the file no longer exists.
C1_ScratchFileRemoved ==
    [][\A k \in files' : ~SessionEnds(k)]_vars

\* C2: concurrency guard. A key event (Enter, Back, Reload, View, Edit) that
\* arrives while loading is true or a session is active changes no navigation
\* state, issues no fetch and no Get, and launches no process.
C2_KeysRejectedWhileBusy ==
    [][((loading \/ SessionActive) /\ KeyStep)
          => UNCHANGED <<currentPrefix, nextPageToken, hasMoreItems, currentItems,
                         loading, inflight, proc, files>>]_vars

\* C3: prefix stack consistency. Enter on any selectable directory entry sets a
\* prefix from which Back (which maps the prefix to PopPrefix of it, no other
\* step changing the prefix in between) returns exactly to the prefix held
\* before the Enter.
C3_BackUndoesEnter ==
    [][\A i \in Selections : EnterDir(i) => PopPrefix(currentPrefix') = currentPrefix]_vars

\* C4: cursor reset on navigation. Whenever currentPrefix changes the page
\* cursor is reset and the fetch issued for the new prefix carries no
\* continuation token.
C4_CursorResetOnNavigation ==
    [][currentPrefix' # currentPrefix
          => /\ nextPageToken' = NoToken
             /\ hasMoreItems' = FALSE
             /\ \A f \in NewFetches : f.tok = NoToken]_vars

\* C5: reload idempotence. A Reload of a displayed page of the current prefix
\* keeps the prefix and issues one fetch, for that prefix and with the cursor of
\* the fetch that produced the displayed page.
C5_ReloadSameCursor ==
    [][(Reload /\ ~loading /\ shown.set /\ shown.prefix = currentPrefix)
          => /\ currentPrefix' = currentPrefix
             /\ NewFetches = {LoadItemsCmd(currentPrefix, shown.token)}]_vars

\* C6: fetch failure. When a listing fetch fails, loading becomes false, the
\* status message is the failure description, prefix, cursor and entries are
\* unchanged, and the renderer shows the failure text.
C6_FetchFailureClearsLoading ==
    [][\A f \in BagToSet(inflight) : FetchError(f)
          => /\ loading' = FALSE
             /\ statusMsg' = ErrorStatus("ListObjectsV2 failed")
             /\ UNCHANGED <<currentPrefix, nextPageToken, hasMoreItems, currentItems>>
             /\ Rendered' = ErrorStatus("ListObjectsV2 failed")]_vars

\* C7: loading is true exactly while a listing fetch is outstanding, and at
\* most one listing fetch is outstanding.
C7_LoadingIffOneFetch ==
    /\ loading <=> Pending("loadItems") # {}
    /\ Cardinality(Pending("loadItems")) <= 1
    /\ \A f \in Pending("loadItems") : CopiesIn(f, inflight) = 1

\* C8: single-level projection. Every file entry on display has no delimiter
\* in its key with the current prefix removed; every directory entry on
\* display has none once the trailing delimiter is stripped as well.
C8_DisplayedEntriesOneLevel ==
    ~loading =>
        \A i \in 1..Len(currentItems) :
            LET rel == TrimPrefix(currentItems[i].key, currentPrefix) IN
            IF currentItems[i].isDir
            THEN ~Contains(TrimSuffix(rel, <<Delim>>), Delim)
            ELSE ~Contains(rel, Delim)

\* the common prefixes the projection keeps, in the store's order
KeptDirs(P, cps) == SelectSeq(cps, LAMBDA p : p # <<>> /\ p # P)

\* the content keys the projection keeps, in the store's order
KeptFiles(P, contents) ==
    SelectSeq(contents,
              LAMBDA k : k # <<>> /\ k # P /\ ~Contains(TrimPrefix(k, P), Delim))

\* C9: projection result. The entries are one directory entry per common
\* prefix that is neither empty nor the prefix, in order, followed by one file
\* entry per content key that is not empty, not the prefix and has no
\* delimiter in its relative path, in order; nothing added, dropped,
\* duplicated or re-sorted.
C9_ProjectionResult ==
    projOut.done =>
        LET dirs == KeptDirs(projIn.P, projIn.cps)
            fils == KeptFiles(projIn.P, projIn.contents)
        IN  /\ Len(projOut.items) = Len(dirs) + Len(fils)
            /\ \A i \in 1..Len(dirs) :
                  projOut.items[i].key = dirs[i] /\ projOut.items[i].isDir
            /\ \A i \in 1..Len(fils) :
                  /\ projOut.items[Len(dirs) + i].key = fils[i]
                  /\ ~projOut.items[Len(dirs) + i].isDir

\* C9 witness: a projection that dropped the prefix itself and a deeper key,
\* and kept a directory and a file
C9_Witness ==
    /\ projOut.done
    /\ projIn.P = <<"a", "/">>
    /\ projIn.cps = << <<"a", "/">>, <<"a", "/", "b", "/">> >>
    /\ projIn.contents = << <<"a", "/", "b", "/", "y">>, <<"a", "/", "x">> >>
    /\ Len(projOut.items) = 2

\* C10: fetch success. The page replaces the entries, hasMore and the token
\* are the response's (a token exactly when truncated), loading is false, and
\* the status is "Directory is empty" for no entries, otherwise "Showing N
\* items" with "More available" when truncated and "End of list" when not.
C10_FetchSuccess ==
    [][\A f \in Pending("loadItems") : (inflight' = Take(f) /\ ItemsLoaded(f))
          => LET r == LoadItemsResult(f.key, f.tok) IN
             /\ currentItems' = r.items
             /\ hasMoreItems' = r.hasMore
             /\ nextPageToken' = r.nextToken
             /\ (nextPageToken' # NoToken) <=> hasMoreItems'
             /\ loading' = FALSE
             /\ showStatusMsg' = TRUE
             /\ Len(r.items) = 0 => statusMsg'.kind = "Directory is empty"
             /\ Len(r.items) > 0 =>
                  /\ statusMsg'.kind = "Showing %d items (%s)"
                  /\ statusMsg'.n = Len(currentItems')
                  /\ statusMsg'.text = IF hasMoreItems'
                                       THEN "More available - press 'n' for next page"
                                       ELSE "End of list"]_vars

\* C10 witness: a truncated page is on display with its token kept
C10_Witness ==
    /\ ~loading
    /\ shown.set
    /\ hasMoreItems
    /\ nextPageToken # NoToken
    /\ Len(currentItems) = StorePageMax
    /\ statusMsg = [kind |-> "Showing %d items (%s)", n |-> StorePageMax,
                    text |-> "More available - press 'n' for next page"]

----------------------------------------------------------------------------
(* Sessions: failures, exit errors, status display *)

\* the texts of the errors a View or Edit session can return
SessionErrors ==
    {"GetObject failed", "failed to create temp file", "failed to write to temp file",
     "open failed", "PutObject failed", "remove failed"}

\* C12: failure short-circuit. A failed Get or local write launches no process;
\* a failed re-open or upload sets no confirmation and schedules no timer; a
\* failed removal schedules no timer; and when the failure's description is
\* delivered (the listing on display, loading false) it is what the renderer
\* shows.
C12_FailureShortCircuits ==
    [][/\ \A i \in Selections, o \in {"getFail", "createFail", "copyFail"} :
             (View(i, o) \/ Edit(i, o)) => Pending("exec")' = Pending("exec")
       /\ \A m \in Pending("EditFinishedMsg") :
             /\ (EditFinished(m, "openFail") \/ EditFinished(m, "putFail"))
                    => /\ editFileStatus' = editFileStatus
                       /\ Pending("EditFileTickMsg")' = Pending("EditFileTickMsg")
             /\ EditFinished(m, "removeFail")
                    => Pending("EditFileTickMsg")' = Pending("EditFileTickMsg")
       /\ \A m \in Pending("error") :
             (inflight' = Take(m) /\ ErrorMsg(m) /\ m.err \in SessionErrors /\ ~loading)
                    => Rendered' = ErrorStatus(m.err)]_vars

\* C13: subprocess exit errors. When the pager or the editor exits with an
\* error, handling the finished message makes the status message the
\* description of that exit error.
C13_ExitErrorSurfaced ==
    [][/\ \A m \in Pending("ViewFinishedMsg"), removed \in BOOLEAN :
             (m.err # "" /\ ViewFinished(m, removed))
                    => statusMsg' = ErrorStatus(m.err) /\ showStatusMsg'
       /\ \A m \in Pending("EditFinishedMsg"), o \in FinishOutcomes :
             (m.err # "" /\ EditFinished(m, o))
                    => statusMsg' = ErrorStatus(m.err) /\ showStatusMsg']_vars

\* C14: Back at the root is a no-op. With currentPrefix empty a Back key issues
\* no fetch and leaves prefix, cursor, entries, loading and the status message
\* unchanged.
C14_BackAtRootNoOp ==
    [][(currentPrefix = <<>> /\ (Back \/ BackAtRoot))
          => /\ NewFetches = {}
             /\ UNCHANGED <<currentPrefix, nextPageToken, hasMoreItems, currentItems,
                            loading, statusMsg, showStatusMsg, editFileStatus,
                            inflight>>]_vars

\* C14 witness: the root listing is on display with the loop running,
\* the state in which a Back key finds nothing to pop
C14_Witness ==
    /\ currentPrefix = <<>>
    /\ LoopRuns
    /\ ~loading
    /\ shown.set
    /\ shown.prefix = <<>>
    /\ Len(currentItems) > 0
    /\ inflight = EmptyBag

\* C15: Enter transition. Enter on a selected directory entry sets
\* currentPrefix to that entry's full key, sets loading, and issues exactly one
\* listing fetch, whose Prefix is the new currentPrefix.
C15_EnterTransition ==
    [][\A i \in Selections : EnterDir(i)
          => /\ currentPrefix' = currentItems[i].key
             /\ loading' = TRUE
             /\ \E f \in BagToSet(inflight') :
                   /\ f.type = "loadItems"
                   /\ f.key = currentPrefix'
                   /\ inflight' = Send(f)]_vars

\* C15 witness: Enter on directory a at the root: the prefix is a/ and the one
\* fetch outstanding is for a/
C15_Witness ==
    /\ currentPrefix = <<"a", "/">>
    /\ loading
    /\ shown.set
    /\ shown.prefix = <<>>
    /\ BagCardinality(inflight) = 1
    /\ \E f \in Pending("loadItems") : f.key = <<"a", "/">>

\* C16: single status message. When a listing summary is produced it is what
\* the renderer displays from then on, whatever message was current before.
C16_LatestStatusDisplayed ==
    [][\A f \in Pending("loadItems") : (inflight' = Take(f) /\ ItemsLoaded(f))
          => Rendered' = statusMsg']_vars

\* C20: Edit on a directory is a no-op. With a directory selected an Edit key
\* issues no Get, creates no local file, launches no process and leaves the
\* navigation and status state unchanged.
C20_EditOnDirectoryNoOp ==
    [][\A i \in Selections :
          (i > 0 /\ currentItems[i].isDir
             /\ (EditNothing(i) \/ \E o \in SessionOutcomes : Edit(i, o)))
          => UNCHANGED <<currentPrefix, nextPageToken, hasMoreItems, currentItems,
                         loading, statusMsg, showStatusMsg, editFileStatus,
                         inflight, proc, files>>]_vars

\* C20 witness: a listing with a directory entry is on display, the loop runs
\* and nothing is in flight: the state an Edit key on that entry leaves as it is
C20_Witness ==
    /\ LoopRuns
    /\ ~loading
    /\ inflight = EmptyBag
    /\ files = {}
    /\ \E i \in 1..Len(currentItems) : currentItems[i].isDir

----------------------------------------------------------------------------
(* The Edit session, step by step *)

\* the timer fires and its message is taken whenever the loop reads again; a
\* process that owns the terminal exits
SpecFair ==
    /\ Init
    /\ [][Next]_vars
    /\ SF_vars(EditFileTick(EditFileTickMsg))
    /\ WF_vars(\E e \in ExitErrors : ProcExit(e))

\* the messages of the given type the step adds
Added(t) ==
    {m \in BagToSet(inflight') : m.type = t /\ CopiesIn(m, inflight') > CopiesIn(m, inflight)}

\* C11: Edit session sequence. Each step of an Edit session on key K comes
\* after the one before it: the download and the local write launch nothing
\* themselves but hand the editor to the runtime; the editor starts only from
\* that command and its exit alone produces the finished message for K; on
\* that message the upload comes before the confirmation (a failed upload
\* leaves no confirmation, no timer, and the file), the confirmation before
\* the removal (a failed removal leaves the confirmation and no timer), the
\* removal before the timer; when all succeed the confirmation names K, the
\* file is gone and one timer is scheduled. Under fair delivery of the timer
\* event the confirmation is eventually cleared.
C11_EditSessionSequence ==
    /\ [][/\ \A i \in Selections :
                Edit(i, "ok")
                   => /\ currentItems[i].key \in files'
                      /\ Added("exec") = {ExecCmd("edit", currentItems[i].key)}
                      /\ proc' = proc
          /\ \A e \in Pending("exec") :
                (e.err = "edit" /\ ExecStart(e))
                   => /\ proc' = [mode |-> "edit", key |-> e.key]
                      /\ Added("EditFinishedMsg") = {}
          /\ \A e \in ExitErrors :
                (proc.mode = "edit" /\ ProcExit(e))
                   => /\ Added("EditFinishedMsg") = {EditFinishedMsg(proc.key, e)}
                      /\ UNCHANGED <<editFileStatus, files>>
          /\ \A m \in Pending("EditFinishedMsg") :
                /\ EditFinished(m, "putFail")
                      => /\ UNCHANGED <<editFileStatus, files>>
                         /\ Added("EditFileTickMsg") = {}
                /\ EditFinished(m, "removeFail")
                      => /\ editFileStatus' = UploadedStatus(m.key)
                         /\ m.key \in files'
                         /\ Added("EditFileTickMsg") = {}
                /\ EditFinished(m, "ok")
                      => /\ editFileStatus' = UploadedStatus(m.key)
                         /\ m.key \notin files'
                         /\ Added("EditFileTickMsg") = {EditFileTickMsg}
                         /\ CopiesIn(EditFileTickMsg, inflight')
                               = CopiesIn(EditFileTickMsg, inflight) + 1]_vars
    /\ (Pending("EditFileTickMsg") # {}) ~> (editFileStatus = NoEditStatus)

\* C11 witness: an Edit session on r has run to its end: the confirmation
\* names r, the scratch file is gone and the timer is pending
C11_Witness ==
    /\ editFileStatus = UploadedStatus(<<"r">>)
    /\ files = {}
    /\ proc = NoProc
    /\ inflight = SetToBag({EditFileTickMsg})

----------------------------------------------------------------------------
(* The content filter *)

\* the runes of text from position i on, each marked as emphasized or not by a
\* left-to-right, non-overlapping, case-insensitive scan for s
RECURSIVE Scanned(_, _, _)
Scanned(text, s, i) ==
    IF i > Len(text) THEN <<>>
    ELSE IF /\ Len(s) > 0
            /\ i + Len(s) - 1 <= Len(text)
            /\ ToLower(SubSeq(text, i, i + Len(s) - 1)) = ToLower(s)
    THEN [j \in 1..Len(s) |-> [r |-> text[i + j - 1], hl |-> TRUE]]
            \o Scanned(text, s, i + Len(s))
    ELSE <<[r |-> text[i], hl |-> FALSE]>> \o Scanned(text, s, i + 1)

\* the bytes of marked runes, each byte marked as its rune
RECURSIVE MarkedBytes(_)
MarkedBytes(marked) ==
    IF Len(marked) = 0 THEN <<>>
    ELSE (IF Head(marked).hl
          THEN Render(Utf8Rune(Head(marked).r))
          ELSE Plain(Utf8Rune(Head(marked).r)))
         \o MarkedBytes(Tail(marked))

\* C17: filter highlighting. With the filter enabled the displayed text is the
\* body with exactly the occurrences of the filter string emphasized that a
\* case-insensitive, left-to-right, non-overlapping scan finds; an empty
\* filter string emphasizes nothing; the viewer does not die on the way.
C17_FilterHighlighting ==
    /\ ~panicked
    /\ filterEnabled => viewport = MarkedBytes(Scanned(body, filterInput, 1))

\* C18: filter round trip. Toggling the filter off leaves the filter string
\* empty and the displayed text equal to the body, whatever was typed or
\* resized before; no step modifies the body.
C18_FilterRoundTrip ==
    [][/\ body' = body
       /\ (filterEnabled /\ KeyEsc)
             => /\ ~filterEnabled'
                /\ filterInput' = <<>>
                /\ viewport' = Plain(Utf8(body))]_vars

\* C18 witness: the filter is enabled with a filter string typed and an
\* occurrence emphasized: the state Esc acts on
C18_Witness ==
    /\ filterEnabled
    /\ filterInput # <<>>
    /\ \E i \in 1..Len(viewport) : viewport[i].hl

----------------------------------------------------------------------------
(* The bytes of an Edit session *)

\* C19: Edit uploads exactly what was edited. The file written for an Edit
\* session holds the object body and nothing else; the upload on editor exit
\* makes the object's body the file's contents at that moment; and if the
\* editor has not written the file, the object's body after the session is
\* the body downloaded.
C19_EditUploadsWhatWasEdited ==
    [][/\ EditDownload => tmpFile' = [exists |-> TRUE, content |-> object]
       /\ (EditUpload /\ tmpFile.exists) => object' = tmpFile.content
       /\ (EditUpload /\ ~saved) => object' = downloaded]_vars

----------------------------------------------------------------------------
(* The shape of the prefix *)

\* C21: Prefix well-formedness. In every reachable state currentPrefix is the
\* empty string (the root) or ends with the delimiter, whatever Enter, Back,
\* Reload steps and fetch completions led there; the store's common prefixes
\* end with the delimiter.
C21_PrefixWellFormed ==
    currentPrefix = <<>> \/ HasSuffix(currentPrefix, <<Delim>>)

\* C21 witness: Back has popped a/b/ to a/ (the listing on display is still
\* that of a/b/)
C21_Witness ==
    /\ currentPrefix = <<"a", "/">>
    /\ shown.set
    /\ shown.prefix = <<"a", "/", "b", "/">>

----------------------------------------------------------------------------
(* Enter with nothing selected *)

\* C25: No selection, no session. When Enter arrives and the displayed list
\* is empty, the handler calls the store for no object (so no result of a Get,
\* success or failure, comes back), creates no file, launches no process and
\* changes no navigation state; and a command to run the pager is only ever
\* issued for a file entry of the displayed list.
C25_NoSelectionNoSession ==
    [][/\ \A o \in SessionOutcomes :
             View(0, o)
                => /\ Added("error") = {}
                   /\ Added("exec") = {}
                   /\ UNCHANGED <<currentPrefix, nextPageToken, hasMoreItems,
                                  currentItems, loading, inflight, files, proc>>
       /\ \A e \in Added("exec") :
             e.err = "view"
                => \E i \in 1..Len(currentItems) :
                      /\ ~currentItems[i].isDir
                      /\ currentItems[i].key = e.key]_vars

----------------------------------------------------------------------------
(* The listing on display and the current prefix *)

\* C24: Displayed entries belong to the current directory. In every reachable
\* state in which loading is false, the key of every displayed entry starts
\* with currentPrefix, in whatever order the outstanding fetches complete.
C24_EntriesUnderCurrentPrefix ==
    ~loading =>
        \A i \in 1..Len(currentItems) : HasPrefix(currentItems[i].key, currentPrefix)

----------------------------------------------------------------------------
(* Scratch files for keys at any depth *)

\* C23: Transient file creation at any depth. For every file entry on display,
\* under the root or under a nested prefix (so also for keys that hold the
\* delimiter), whenever the handler can run, a View and an Edit whose Get
\* succeeds can create the scratch file named after the key and issue the
\* command that launches the external process on it; no directory other than
\* the scratch directory is there, and the session creates none.
C23_ScratchFileAtAnyDepth ==
    \A i \in 1..Len(currentItems) :
        (~currentItems[i].isDir /\ LoopRuns /\ Room)
           => /\ ENABLED (/\ View(i, "ok")
                          /\ currentItems[i].key \in files'
                          /\ Added("exec") = {ExecCmd("view", currentItems[i].key)})
              /\ ENABLED (/\ Edit(i, "ok")
                          /\ currentItems[i].key \in files'
                          /\ Added("exec") = {ExecCmd("edit", currentItems[i].key)})

----------------------------------------------------------------------------
(* The confirmation and its timer *)

\* C26: Confirmation message is cleared only by its own timer. The timers all
\* run for the same two seconds, so they fire, and their events are taken, in
\* the order the sessions scheduled them: while more than one timer event is
\* outstanding, the one taken belongs to an earlier session than the one that
\* set the confirmation now current, and taking it leaves that confirmation
\* in place.
C26_OwnTimerClears ==
    [][\A m \in Pending("EditFileTickMsg") :
          (CopiesIn(m, inflight) > 1 /\ EditFileTick(m))
             => editFileStatus' = editFileStatus]_vars

----------------------------------------------------------------------------
(* The navigation state across a session *)

\* the controller, with the start of each session put on record
InitSession ==
    /\ currentPrefix = <<>>
    /\ loading = TRUE
    /\ nextPageToken = NoToken
    /\ hasMoreItems = FALSE
    /\ currentItems = <<>>
    /\ statusMsg = NoStatus
    /\ showStatusMsg = FALSE
    /\ editFileStatus = NoEditStatus
    /\ inflight = SetToBag({LoadItemsCmd(<<>>, NoToken)})
    /\ proc = NoProc
    /\ files = {}
    /\ shown = NothingShown
    /\ startFrame = NoFrame
    /\ ProjIdle /\ ViewIdle /\ EditIdle

SpecSession == InitSession /\ [][Next]_vars

\* C22: Session exit restores the controller identically. When a View or Edit
\* session ends (its finished message is handled), currentPrefix, the cursor
\* (hasMore and continuation token), the entries and loading are exactly what
\* they were when the session started (when the key that started it was
\* handled), whether the external process exited with success or with an
\* error.
C22_SessionExitRestoresFrame ==
    [][startFrame.known
          => /\ \A m \in Pending("ViewFinishedMsg"), removed \in BOOLEAN :
                   ViewFinished(m, removed) => Frame' = startFrame.frame
             /\ \A m \in Pending("EditFinishedMsg"), o \in FinishOutcomes :
                   EditFinished(m, o) => Frame' = startFrame.frame]_vars

====
